---- MODULE Spec2Model ----
(***************************************************************************)
(* Model of csvh.py: prolog filtering, column selection, row filtering and *)
(* the process_csv pipeline.                                               *)
(*                                                                         *)
(* A text file is a sequence of lines; a line is the non-empty sequence of *)
(* fields it holds.  The empty sequence stands for the empty string that   *)
(* readline() returns at end of file.  A dict is a sequence of entries in  *)
(* insertion order with pairwise distinct keys.                            *)
(***************************************************************************)
EXTENDS Integers, Sequences, FiniteSets, TLC

VARIABLES
    pc,            \* position in the function under execution
    error,         \* exception raised, "none" while there is none
    input_file,    \* the lines of the input stream
    pos,           \* number of lines of input_file consumed so far
    keep_prolog,   \* process_csv / filter_prolog parameter
    skip_prolog,   \* process_csv / filter_prolog parameter
    prolog_lines,  \* list returned by filter_prolog
    csv_fields,    \* header (input_cols of read_cols)
    keep_cols,     \* read_cols parameter
    skip_cols,     \* read_cols parameter
    kept_cols,     \* list returned by read_cols
    keep_rows,     \* row filters: dict column -> allowed values
    skip_rows,     \* row filters: dict column -> skipped values
    rows_in,       \* rows the row iterator has handed out so far
    rows_out,      \* rows yielded by filter_rows so far
    ret,           \* value returned by a directly called keep_row / skip_row
    output,        \* what has been written to output_file, in order
    cur_row,       \* process_csv: `row`, as handed to csv_writer.writerow
    args,          \* main: the parsed command-line arguments
    output_dialect \* main / process_csv: the output dialect

vars == <<pc, error, input_file, pos, keep_prolog, skip_prolog, prolog_lines,
          csv_fields, keep_cols, skip_cols, kept_cols, keep_rows, skip_rows,
          rows_in, rows_out, ret, output, cur_row, args, output_dialect>>

\* the arguments of the call under execution: no function assigns them
params == <<input_file, keep_prolog, skip_prolog, keep_cols, skip_cols,
            keep_rows, skip_rows, args, output_dialect>>

\* ------------------------------------------------------------------ bounds
MaxHeader == 3     \* longest header drawn for read_cols
MaxList == 2       \* longest keep_cols / skip_cols list drawn for read_cols
MaxFile == 3       \* most lines in an input stream
MaxProlog == 2     \* largest keep_prolog / skip_prolog drawn for filter_prolog
MaxRows == 2       \* most rows handed to a directly called filter_rows

\* ----------------------------------------------------------------- helpers
Range(s) == {s[i] : i \in 1..Len(s)}

\* Python `x in list`
InList(x, s) == \E i \in 1..Len(s) : s[i] = x

SeqsUpTo(S, n) == UNION {[1..k -> S] : k \in 0..n}

IsUnique(s) == \A i, j \in 1..Len(s) : i # j => s[i] # s[j]

Max(a, b) == IF a >= b THEN a ELSE b

\* ret before keep_row / skip_row has been called directly
NoCall == [fn |-> "none", val |-> "none"]

\* row before process_csv has taken a row from filter_rows
NoRow == <<>>

\* args where the command line is not modelled
NoArgs == <<>>

\* csv.QUOTE_* constants
QUOTE_MINIMAL == 0
QUOTE_ALL == 1
QUOTE_NONNUMERIC == 2
QUOTE_NONE == 3

\* None as the value of a dialect's character attribute
NoneChar == "<None>"

\* csv.excel, csv.excel_tab, csv.unix_dialect
Excel ==
    [delimiter |-> ",", quotechar |-> "\"", escapechar |-> NoneChar,
     quoting |-> QUOTE_MINIMAL, lineterminator |-> "\r\n",
     skipinitialspace |-> FALSE]
ExcelTab == [Excel EXCEPT !.delimiter = "\t"]
UnixDialect ==
    [Excel EXCEPT !.quoting = QUOTE_ALL, !.lineterminator = "\n"]

\* column names the inputs are drawn from
ColNames == {"a", "b", "c", "d"}

\* --------------------------------------------------------------- read_cols
\* mutant: the result follows the order of keep_cols
ReadCols_KeepOrder(input_cols, keep, skip) ==
    IF \E i \in 1..Len(keep) : ~InList(keep[i], input_cols)
    THEN [error |-> "KeyError", cols |-> <<>>]
    ELSE IF \E i \in 1..Len(skip) : ~InList(skip[i], input_cols)
    THEN [error |-> "KeyError", cols |-> <<>>]
    ELSE LET k1 == IF keep # <<>> THEN keep ELSE input_cols
             k2 == IF skip # <<>>
                   THEN SelectSeq(k1, LAMBDA c : ~InList(c, skip))
                   ELSE k1
         IN  [error |-> "none", cols |-> k2]

\* mutant: skip_cols is not used when keep_cols is not empty
ReadCols_KeepWins(input_cols, keep, skip) ==
    IF \E i \in 1..Len(keep) : ~InList(keep[i], input_cols)
    THEN [error |-> "KeyError", cols |-> <<>>]
    ELSE IF \E i \in 1..Len(skip) : ~InList(skip[i], input_cols)
    THEN [error |-> "KeyError", cols |-> <<>>]
    ELSE IF keep # <<>>
    THEN [error |-> "none",
          cols |-> SelectSeq(input_cols, LAMBDA c : InList(c, keep))]
    ELSE [error |-> "none",
          cols |-> SelectSeq(input_cols, LAMBDA c : ~InList(c, skip))]

\* mutant: skip_cols is validated only when keep_cols is empty
ReadCols_LazySkipCheck(input_cols, keep, skip) ==
    IF \E i \in 1..Len(keep) : ~InList(keep[i], input_cols)
    THEN [error |-> "KeyError", cols |-> <<>>]
    ELSE IF keep = <<>> /\ \E i \in 1..Len(skip) : ~InList(skip[i], input_cols)
    THEN [error |-> "KeyError", cols |-> <<>>]
    ELSE LET k1 == IF keep # <<>>
                   THEN SelectSeq(input_cols, LAMBDA c : InList(c, keep))
                   ELSE input_cols
             k2 == IF skip # <<>>
                   THEN SelectSeq(k1, LAMBDA c : ~InList(c, skip))
                   ELSE k1
         IN  [error |-> "none", cols |-> k2]

\* read_cols: the two precondition loops, then the two list comprehensions
ReadCols(input_cols, keep, skip) ==
    IF \E i \in 1..Len(keep) : ~InList(keep[i], input_cols)
    THEN [error |-> "KeyError", cols |-> <<>>]
    ELSE IF \E i \in 1..Len(skip) : ~InList(skip[i], input_cols)
    THEN [error |-> "KeyError", cols |-> <<>>]
    ELSE LET k1 == IF keep # <<>>
                   THEN SelectSeq(input_cols, LAMBDA c : InList(c, keep))
                   ELSE input_cols
             k2 == IF skip # <<>>
                   THEN SelectSeq(k1, LAMBDA c : ~InList(c, skip))
                   ELSE k1
         IN  [error |-> "none", cols |-> k2]

\* headers and column lists read_cols is called with
Headers == {h \in SeqsUpTo(ColNames, MaxHeader) : IsUnique(h)}
ColLists == SeqsUpTo(ColNames, MaxList)

InitCols ==
    /\ pc = "start"
    /\ error = "none"
    /\ input_file = <<>>
    /\ pos = 0
    /\ keep_prolog = 0
    /\ skip_prolog = 0
    /\ prolog_lines = <<>>
    /\ csv_fields \in Headers
    /\ keep_cols \in ColLists
    /\ skip_cols \in ColLists
    /\ kept_cols = <<>>
    /\ keep_rows = <<>>
    /\ skip_rows = <<>>
    /\ rows_in = <<>>
    /\ rows_out = <<>>
    /\ ret = NoCall
    /\ output = <<>>
    /\ cur_row = NoRow
    /\ args = NoArgs
    /\ output_dialect = Excel

\* a call read_cols(csv_fields, keep_cols, skip_cols) that returns
CallReadColsReturn ==
    /\ pc = "start"
    /\ ReadCols(csv_fields, keep_cols, skip_cols).error = "none"
    /\ kept_cols' = ReadCols(csv_fields, keep_cols, skip_cols).cols
    /\ pc' = "done"
    /\ UNCHANGED <<params, error, pos, prolog_lines, csv_fields,
                   rows_in, rows_out, ret, output,
                   cur_row>>

\* a call read_cols(csv_fields, keep_cols, skip_cols) that raises
CallReadColsRaise ==
    /\ pc = "start"
    /\ ReadCols(csv_fields, keep_cols, skip_cols).error # "none"
    /\ error' = ReadCols(csv_fields, keep_cols, skip_cols).error
    /\ pc' = "failed"
    /\ UNCHANGED <<params, pos, prolog_lines, csv_fields, kept_cols,
                   rows_in, rows_out, ret, output,
                   cur_row>>

NextCols == CallReadColsReturn \/ CallReadColsRaise

SpecCols == InitCols /\ [][NextCols]_vars

\* ------------------------------------------------------------ claims C1-C4
SubsetOf(s, h) == \A i \in 1..Len(s) : InList(s[i], h)

C2_SkipIgnoredWhenKeep ==
    (/\ pc \in {"done", "failed"}
     /\ SubsetOf(keep_cols, csv_fields)
     /\ SubsetOf(skip_cols, csv_fields)
     /\ keep_cols # <<>>)
    => /\ pc = "done"
       /\ kept_cols = ReadCols(csv_fields, keep_cols, <<>>).cols

C4_UnknownColumnRaises ==
    pc \in {"done", "failed"}
    => /\ (pc = "failed") <=> ~(/\ SubsetOf(keep_cols, csv_fields)
                                /\ SubsetOf(skip_cols, csv_fields))
       /\ pc = "failed" => error = "KeyError"

C4_Witness ==
    /\ pc = "failed"
    /\ error = "KeyError"
    /\ csv_fields = <<"a", "b">>
    /\ keep_cols = <<"a">>
    /\ skip_cols = <<"d">>

\* ----------------------------------------------------------- filter_prolog
\* lines a stream is made of: each is the sequence of its fields
LineSet == {<<"a", "b">>, <<"1", "2">>, <<"2", "1">>, <<"1">>}

\* what readline() returns at end of file
EofLine == <<>>

\* input_file.readline() with p lines already consumed
Readline(file, p) == IF p < Len(file) THEN file[p + 1] ELSE EofLine

\* stream position after a readline() at position p
AfterReadline(file, p) == IF p < Len(file) THEN p + 1 ELSE p

RECURSIVE PrologLoop(_, _, _, _, _, _)
\* the for loop of filter_prolog from iteration i on
PrologLoop(file, p, i, n, keep, lines) ==
    IF i > n
    THEN [lines |-> lines, pos |-> p]
    ELSE PrologLoop(file, AfterReadline(file, p), i + 1, n, keep,
                    IF keep # 0 THEN Append(lines, Readline(file, p))
                                ELSE lines)

\* mutant: keep_prolog alone sets the number of lines when it is set
FilterProlog_KeepCount(file, p, keep, skip) ==
    PrologLoop(file, p, 1, IF keep # 0 THEN keep ELSE skip, keep, <<>>)

\* mutant: the skip branch is tested first
FilterProlog_SkipFirst(file, p, keep, skip) ==
    PrologLoop(file, p, 1, Max(keep, skip), IF skip # 0 THEN 0 ELSE keep, <<>>)

\* filter_prolog(input_file, keep_prolog, skip_prolog) on a stream at p
FilterProlog(file, p, keep, skip) ==
    PrologLoop(file, p, 1, Max(keep, skip), keep, <<>>)

Files == SeqsUpTo(LineSet, MaxFile)

InitProlog ==
    /\ pc = "start"
    /\ error = "none"
    /\ input_file \in Files
    /\ pos = 0
    /\ keep_prolog \in 0..MaxProlog
    /\ skip_prolog \in 0..MaxProlog
    /\ prolog_lines = <<>>
    /\ csv_fields = <<>>
    /\ keep_cols = <<>>
    /\ skip_cols = <<>>
    /\ kept_cols = <<>>
    /\ keep_rows = <<>>
    /\ skip_rows = <<>>
    /\ rows_in = <<>>
    /\ rows_out = <<>>
    /\ ret = NoCall
    /\ output = <<>>
    /\ cur_row = NoRow
    /\ args = NoArgs
    /\ output_dialect = Excel

\* a call filter_prolog(input_file, keep_prolog, skip_prolog)
CallFilterProlog ==
    /\ pc = "start"
    /\ prolog_lines' = FilterProlog(input_file, pos, keep_prolog, skip_prolog).lines
    /\ pos' = FilterProlog(input_file, pos, keep_prolog, skip_prolog).pos
    /\ pc' = "done"
    /\ UNCHANGED <<params, error, csv_fields, kept_cols, rows_in,
                   rows_out, ret, output,
                   cur_row>>

NextProlog == CallFilterProlog

SpecProlog == InitProlog /\ [][NextProlog]_vars

\* ----------------------------------------------------------- claims C8-C10
\* C8: on a stream of at least n = max(keep_prolog, skip_prolog) lines,
\* filter_prolog consumes exactly the first n lines; it returns them
\* verbatim and in order when keep_prolog > 0 and the empty list otherwise.
C8_PrologConsumesMax ==
    (pc = "done" /\ Len(input_file) >= Max(keep_prolog, skip_prolog))
    => /\ pos = Max(keep_prolog, skip_prolog)
       /\ prolog_lines = IF keep_prolog > 0
                         THEN SubSeq(input_file, 1, Max(keep_prolog, skip_prolog))
                         ELSE <<>>

C8_Witness ==
    /\ pc = "done"
    /\ keep_prolog = 1
    /\ skip_prolog = 2
    /\ Len(input_file) = 3
    /\ pos = 2
    /\ prolog_lines = SubSeq(input_file, 1, 2)

\* C9 as claimed: with keep_prolog k > 0 and skip_prolog s > 0,
\* filter_prolog(stream, k, s) returns the same lines and leaves the same
\* position as filter_prolog(stream, k, 0).
C9_KeepOverridesSkip ==
    (pc = "done" /\ keep_prolog > 0 /\ skip_prolog > 0)
    => /\ prolog_lines = FilterProlog(input_file, 0, keep_prolog, 0).lines
       /\ pos = FilterProlog(input_file, 0, keep_prolog, 0).pos

\* C9 amended: with k > 0 and s > 0, filter_prolog(stream, k, s) returns
\* the same lines and leaves the same position as
\* filter_prolog(stream, max(k, s), 0); that is the result of
\* filter_prolog(stream, k, 0) when s <= k, and a longer list when s > k.
C9_KeepOverridesSkipAmended ==
    (pc = "done" /\ keep_prolog > 0 /\ skip_prolog > 0)
    => /\ prolog_lines =
            FilterProlog(input_file, 0, Max(keep_prolog, skip_prolog), 0).lines
       /\ pos = FilterProlog(input_file, 0, Max(keep_prolog, skip_prolog), 0).pos
       /\ skip_prolog <= keep_prolog =>
            /\ prolog_lines = FilterProlog(input_file, 0, keep_prolog, 0).lines
            /\ pos = FilterProlog(input_file, 0, keep_prolog, 0).pos
       /\ skip_prolog > keep_prolog =>
            Len(prolog_lines) >
                Len(FilterProlog(input_file, 0, keep_prolog, 0).lines)

C9_Witness ==
    /\ pc = "done"
    /\ keep_prolog = 2
    /\ skip_prolog = 1
    /\ Len(input_file) = 3
    /\ pos = 2
    /\ prolog_lines = SubSeq(input_file, 1, 2)

\* C10: when the stream holds m < n = max(keep_prolog, skip_prolog) lines
\* and keep_prolog > 0, the returned list has exactly m elements, the m
\* lines available.
C10_ShortStreamKeepsAvailable ==
    (/\ pc = "done"
     /\ keep_prolog > 0
     /\ Len(input_file) < Max(keep_prolog, skip_prolog))
    => /\ Len(prolog_lines) = Len(input_file)
       /\ prolog_lines = input_file

\* ------------------------------------------------ keep_row / skip_row
\* A row is a function from its keys to its values.  A filter dict is a
\* sequence of entries [col, values] in insertion order.

RECURSIVE KeepRowFrom(_, _, _)
\* the for loop of keep_row from entry i on: "True", "False" or "KeyError"
KeepRowFrom(row, filters, i) ==
    IF i > Len(filters) THEN "True"
    ELSE IF filters[i].col \notin DOMAIN row THEN "KeyError"
    ELSE IF ~InList(row[filters[i].col], filters[i].values) THEN "False"
    ELSE KeepRowFrom(row, filters, i + 1)

RECURSIVE SkipRowFrom(_, _, _)
\* the for loop of skip_row from entry i on: "True", "False" or "KeyError"
SkipRowFrom(row, filters, i) ==
    IF i > Len(filters) THEN "True"
    ELSE IF filters[i].col \notin DOMAIN row THEN "KeyError"
    ELSE IF InList(row[filters[i].col], filters[i].values) THEN "False"
    ELSE SkipRowFrom(row, filters, i + 1)

\* mutant: a row is kept when some filter matches
KeepRow_AnyFilter(row, filters) ==
    IF \E i \in 1..Len(filters) : filters[i].col \notin DOMAIN row
    THEN "KeyError"
    ELSE IF filters = <<>> THEN "True"
    ELSE IF \E i \in 1..Len(filters) :
                InList(row[filters[i].col], filters[i].values)
    THEN "True" ELSE "False"

\* keep_row(row, keep_rows)
KeepRow(row, filters) == KeepRowFrom(row, filters, 1)

\* skip_row(row, skip_rows)
SkipRow(row, filters) == SkipRowFrom(row, filters, 1)

\* mutant: filter_rows tests keep_row alone
FilterTest_KeepOnly(row, keep, skip) == KeepRow(row, keep)

\* the condition of filter_rows: `keep_row(...) and skip_row(...)`
FilterTest(row, keep, skip) ==
    IF KeepRow(row, keep) # "True" THEN KeepRow(row, keep)
    ELSE SkipRow(row, skip)

\* columns, values and filter dicts the row functions are called with
RowCols == {"a", "b"}
RowValues == {"1", "2"}
ValueLists == {<<>>, <<"1">>, <<"1", "2">>}
FilterEntries == [col : RowCols, values : ValueLists]
FilterDicts ==
    {d \in SeqsUpTo(FilterEntries, Cardinality(RowCols)) :
        \A i, j \in 1..Len(d) : i # j => d[i].col # d[j].col}
DictRows == UNION {[S -> RowValues] : S \in SUBSET RowCols}

InitRows ==
    /\ pc = "start"
    /\ error = "none"
    /\ input_file = <<>>
    /\ pos = 0
    /\ keep_prolog = 0
    /\ skip_prolog = 0
    /\ prolog_lines = <<>>
    /\ csv_fields = <<>>
    /\ keep_cols = <<>>
    /\ skip_cols = <<>>
    /\ kept_cols = <<>>
    /\ keep_rows \in FilterDicts
    /\ skip_rows \in FilterDicts
    /\ rows_in = <<>>
    /\ rows_out = <<>>
    /\ ret = NoCall
    /\ output = <<>>
    /\ cur_row = NoRow
    /\ args = NoArgs
    /\ output_dialect = Excel

\* a direct call keep_row(row, keep_rows)
CallKeepRow ==
    /\ pc = "start"
    /\ \E row \in DictRows :
        /\ rows_in' = <<row>>
        /\ ret' = [fn |-> "keep_row", val |-> KeepRow(row, keep_rows)]
        /\ pc' = IF KeepRow(row, keep_rows) = "KeyError" THEN "failed" ELSE "done"
        /\ error' = IF KeepRow(row, keep_rows) = "KeyError" THEN "KeyError" ELSE error
    /\ UNCHANGED <<params, pos, prolog_lines, csv_fields, kept_cols,
                   rows_out, output,
                   cur_row>>

\* a direct call skip_row(row, skip_rows)
CallSkipRow ==
    /\ pc = "start"
    /\ \E row \in DictRows :
        /\ rows_in' = <<row>>
        /\ ret' = [fn |-> "skip_row", val |-> SkipRow(row, skip_rows)]
        /\ pc' = IF SkipRow(row, skip_rows) = "KeyError" THEN "failed" ELSE "done"
        /\ error' = IF SkipRow(row, skip_rows) = "KeyError" THEN "KeyError" ELSE error
    /\ UNCHANGED <<params, pos, prolog_lines, csv_fields, kept_cols,
                   rows_out, output,
                   cur_row>>

\* filter_rows takes the next row of input_rows and yields it
FilterRowsYield ==
    /\ pc \in {"start", "iter"}
    /\ Len(rows_in) < MaxRows
    /\ \E row \in DictRows :
        /\ FilterTest(row, keep_rows, skip_rows) = "True"
        /\ rows_in' = Append(rows_in, row)
        /\ rows_out' = Append(rows_out, row)
    /\ pc' = "iter"
    /\ UNCHANGED <<params, error, pos, prolog_lines, csv_fields,
                   kept_cols, ret, output,
                   cur_row>>

\* filter_rows takes the next row of input_rows and drops it
FilterRowsDrop ==
    /\ pc \in {"start", "iter"}
    /\ Len(rows_in) < MaxRows
    /\ \E row \in DictRows :
        /\ FilterTest(row, keep_rows, skip_rows) = "False"
        /\ rows_in' = Append(rows_in, row)
    /\ pc' = "iter"
    /\ UNCHANGED <<params, error, pos, prolog_lines, csv_fields,
                   kept_cols, rows_out, ret, output,
                   cur_row>>

\* filter_rows takes the next row of input_rows and the test raises
FilterRowsRaise ==
    /\ pc \in {"start", "iter"}
    /\ Len(rows_in) < MaxRows
    /\ \E row \in DictRows :
        /\ FilterTest(row, keep_rows, skip_rows) = "KeyError"
        /\ rows_in' = Append(rows_in, row)
    /\ error' = "KeyError"
    /\ pc' = "failed"
    /\ UNCHANGED <<params, pos, prolog_lines, csv_fields, kept_cols,
                   rows_out, ret, output,
                   cur_row>>

NextRows ==
    \/ CallKeepRow
    \/ CallSkipRow
    \/ FilterRowsYield
    \/ FilterRowsDrop
    \/ FilterRowsRaise

SpecRows == InitRows /\ [][NextRows]_vars

\* ------------------------------------------------------------ claims C6-C7
\* the row has every column the two filter dicts name
HasFilterCols(row) ==
    /\ \A i \in 1..Len(keep_rows) : keep_rows[i].col \in DOMAIN row
    /\ \A i \in 1..Len(skip_rows) : skip_rows[i].col \in DOMAIN row

\* the admission condition of the specification
Admitted(row) ==
    /\ \A i \in 1..Len(keep_rows) :
            row[keep_rows[i].col] \in Range(keep_rows[i].values)
    /\ \A i \in 1..Len(skip_rows) :
            row[skip_rows[i].col] \notin Range(skip_rows[i].values)

\* C6: as long as every row handed to filter_rows contains all filter
\* columns, filter_rows raises nothing and has yielded exactly the rows for
\* which every keep_rows entry holds the row's value and no skip_rows entry
\* does, in input order; with both dicts empty it yields every row.
C6_FilterRowsAdmits ==
    (/\ ret = NoCall
     /\ \A i \in 1..Len(rows_in) : HasFilterCols(rows_in[i]))
    => /\ pc # "failed"
       /\ rows_out = SelectSeq(rows_in, Admitted)
       /\ (keep_rows = <<>> /\ skip_rows = <<>>) => rows_out = rows_in

C6_Witness ==
    /\ ret = NoCall
    /\ pc = "iter"
    /\ Len(keep_rows) = 1 /\ keep_rows[1].col = "a"
    /\ Len(skip_rows) = 1 /\ skip_rows[1].col = "b"
    /\ Len(rows_in) = 2
    /\ HasFilterCols(rows_in[1]) /\ Admitted(rows_in[1])
    /\ HasFilterCols(rows_in[2]) /\ ~Admitted(rows_in[2])
    /\ rows_out = <<rows_in[1]>>

\* C7: keep_row and skip_row raise KeyError whenever some filter column is
\* absent from the row, whatever the values of the columns that are
\* present; they return no boolean for such a row.
C7_MissingColumnRaises ==
    /\ (/\ ret.fn = "keep_row"
        /\ \E i \in 1..Len(keep_rows) : keep_rows[i].col \notin DOMAIN rows_in[1])
       => ret.val = "KeyError"
    /\ (/\ ret.fn = "skip_row"
        /\ \E i \in 1..Len(skip_rows) : skip_rows[i].col \notin DOMAIN rows_in[1])
       => ret.val = "KeyError"

\* ------------------------------------------------------------- process_csv
\* key under which csv.DictReader stores the fields beyond the header
RestKey == "<None>"

\* value csv.DictReader gives a header column the record has no field for
RestVal == "<None>"

\* what stands for the list of surplus fields stored under RestKey
RestFields == "<rest>"

\* position of column k in the header (dict(zip(...)): the last one wins)
FieldIndex(fieldnames, k) ==
    CHOOSE i \in 1..Len(fieldnames) :
        /\ fieldnames[i] = k
        /\ \A j \in (i + 1)..Len(fieldnames) : fieldnames[j] # k

\* the dict csv.DictReader makes of a record
ParseRow(fieldnames, line) ==
    [k \in Range(fieldnames)
           \cup (IF Len(fieldnames) < Len(line) THEN {RestKey} ELSE {}) |->
        IF k \in Range(fieldnames)
        THEN IF FieldIndex(fieldnames, k) <= Len(line)
             THEN line[FieldIndex(fieldnames, k)]
             ELSE RestVal
        ELSE RestFields]

\* filter_cols(row, keep_cols): the projected row, or KeyError
FilterCols(row, cols) ==
    IF cols # <<>>
    THEN IF \E i \in 1..Len(cols) : cols[i] \notin DOMAIN row
         THEN [error |-> "KeyError", row |-> row]
         ELSE [error |-> "none", row |-> [c \in Range(cols) |-> row[c]]]
    ELSE [error |-> "none", row |-> row]

\* csv.DictWriter.writerow raises ValueError for keys not in fieldnames
WriterowRaises(row, fieldnames) ==
    \E k \in DOMAIN row : ~InList(k, fieldnames)

\* the fields csv.DictWriter.writerow writes for a row
WriterowFields(row, fieldnames) ==
    [i \in 1..Len(fieldnames) |->
        IF fieldnames[i] \in DOMAIN row /\ row[fieldnames[i]] # RestVal
        THEN row[fieldnames[i]]
        ELSE ""]

\* mutant: the kept prolog lines are written last line first
WrittenProlog_Reversed(lines) ==
    [i \in 1..Len(SelectSeq(lines, LAMBDA l : l # EofLine)) |->
        [via |-> "write",
         fields |-> SelectSeq(lines, LAMBDA l : l # EofLine)[
                        Len(SelectSeq(lines, LAMBDA l : l # EofLine)) + 1 - i]]]

\* output_file.write(line) for each kept prolog line; writing "" adds nothing
WrittenProlog(lines) ==
    [i \in 1..Len(SelectSeq(lines, LAMBDA l : l # EofLine)) |->
        [via |-> "write",
         fields |-> SelectSeq(lines, LAMBDA l : l # EofLine)[i]]]

\* the dialect of csv.DictWriter(output_file, kept_cols): no dialect is
\* passed, so it is the default, "excel"
WriterDialect == Excel

\* arguments process_csv is called with
ArgOutputDialects == {Excel, ExcelTab}
ArgKeepCols == {<<>>, <<"a">>}
ArgSkipCols == {<<>>, <<"b">>, <<"a", "b">>}
ArgKeepRows == {<<>>,
                <<[col |-> "a", values |-> <<"1">>]>>,
                <<[col |-> "b", values |-> <<"1", "2">>]>>}
ArgSkipRows == {<<>>, <<[col |-> "b", values |-> <<"1">>]>>}

Init ==
    /\ pc = "start"
    /\ error = "none"
    /\ input_file \in Files
    /\ pos = 0
    /\ keep_prolog \in 0..MaxProlog
    /\ skip_prolog \in 0..MaxProlog
    /\ prolog_lines = <<>>
    /\ csv_fields = <<>>
    /\ keep_cols \in ArgKeepCols
    /\ skip_cols \in ArgSkipCols
    /\ kept_cols = <<>>
    /\ keep_rows \in ArgKeepRows
    /\ skip_rows \in ArgSkipRows
    /\ rows_in = <<>>
    /\ rows_out = <<>>
    /\ ret = NoCall
    /\ output = <<>>
    /\ cur_row = NoRow
    /\ args = NoArgs
    /\ output_dialect \in ArgOutputDialects

\* prolog_lines = filter_prolog(input_file, keep_prolog, skip_prolog)
SplitProlog ==
    /\ pc = "start"
    /\ prolog_lines' = FilterProlog(input_file, pos, keep_prolog, skip_prolog).lines
    /\ pos' = FilterProlog(input_file, pos, keep_prolog, skip_prolog).pos
    /\ pc' = "read_header"
    /\ UNCHANGED <<params, error, csv_fields, kept_cols, rows_in,
                   rows_out, ret, output,
                   cur_row>>

\* csv_fields = csv_reader.fieldnames, [] when the stream is exhausted
ReadHeader ==
    /\ pc = "read_header"
    /\ csv_fields' = Readline(input_file, pos)
    /\ pos' = AfterReadline(input_file, pos)
    /\ pc' = "read_cols"
    /\ UNCHANGED <<params, error, prolog_lines, kept_cols, rows_in,
                   rows_out, ret, output,
                   cur_row>>

\* kept_cols = read_cols(csv_fields, keep_cols, skip_cols) returns
SelectCols ==
    /\ pc = "read_cols"
    /\ ReadCols(csv_fields, keep_cols, skip_cols).error = "none"
    /\ kept_cols' = ReadCols(csv_fields, keep_cols, skip_cols).cols
    /\ pc' = "write_prolog"
    /\ UNCHANGED <<params, error, pos, prolog_lines, csv_fields,
                   rows_in, rows_out, ret, output,
                   cur_row>>

\* read_cols(csv_fields, keep_cols, skip_cols) raises
SelectColsRaise ==
    /\ pc = "read_cols"
    /\ ReadCols(csv_fields, keep_cols, skip_cols).error # "none"
    /\ error' = ReadCols(csv_fields, keep_cols, skip_cols).error
    /\ pc' = "failed"
    /\ UNCHANGED <<params, pos, prolog_lines, csv_fields, kept_cols,
                   rows_in, rows_out, ret, output,
                   cur_row>>

\* the loop writing the kept prolog lines
WriteProlog ==
    /\ pc = "write_prolog"
    /\ output' = output \o WrittenProlog(prolog_lines)
    /\ pc' = "write_header"
    /\ UNCHANGED <<params, error, pos, prolog_lines, csv_fields,
                   kept_cols, rows_in, rows_out, ret,
                   cur_row>>

\* csv_writer.writeheader()
WriteHeader ==
    /\ pc = "write_header"
    /\ output' = Append(output,
            [via |-> "writeheader", delim |-> WriterDialect.delimiter,
             fields |-> kept_cols])
    /\ pc' = "rows"
    /\ UNCHANGED <<params, error, pos, prolog_lines, csv_fields,
                   kept_cols, rows_in, rows_out, ret,
                   cur_row>>

\* mutant: the record is projected on the column selection before the row
\* filter sees it
NextRecord_Projected ==
    FilterCols(ParseRow(csv_fields, Readline(input_file, pos)), kept_cols).row

\* the record the reader hands to filter_rows next
NextRecord == ParseRow(csv_fields, Readline(input_file, pos))

\* filter_rows drops the next row
RowDropped ==
    /\ pc = "rows"
    /\ pos < Len(input_file)
    /\ FilterTest(NextRecord, keep_rows, skip_rows) = "False"
    /\ rows_in' = Append(rows_in, NextRecord)
    /\ pos' = pos + 1
    /\ UNCHANGED <<params, pc, error, prolog_lines, csv_fields,
                   kept_cols, rows_out, ret, output,
                   cur_row>>

\* keep_row or skip_row raises on the next row
RowFilterRaise ==
    /\ pc = "rows"
    /\ pos < Len(input_file)
    /\ FilterTest(NextRecord, keep_rows, skip_rows) = "KeyError"
    /\ rows_in' = Append(rows_in, NextRecord)
    /\ pos' = pos + 1
    /\ error' = "KeyError"
    /\ pc' = "failed"
    /\ UNCHANGED <<params, prolog_lines, csv_fields, kept_cols,
                   rows_out, ret, output,
                   cur_row>>

\* filter_rows yields the next row, filter_cols projects it, writerow
\* writes it
RowWritten ==
    /\ pc = "rows"
    /\ pos < Len(input_file)
    /\ FilterTest(NextRecord, keep_rows, skip_rows) = "True"
    /\ FilterCols(NextRecord, kept_cols).error = "none"
    /\ ~WriterowRaises(FilterCols(NextRecord, kept_cols).row, kept_cols)
    /\ rows_in' = Append(rows_in, NextRecord)
    /\ rows_out' = Append(rows_out, NextRecord)
    /\ pos' = pos + 1
    /\ cur_row' = FilterCols(NextRecord, kept_cols).row
    /\ output' = Append(output,
            [via |-> "writerow", delim |-> WriterDialect.delimiter,
             fields |-> WriterowFields(FilterCols(NextRecord, kept_cols).row,
                                       kept_cols)])
    /\ UNCHANGED <<params, pc, error, prolog_lines, csv_fields,
                   kept_cols, ret>>

\* filter_rows yields the next row and filter_cols raises KeyError or
\* writerow raises ValueError
RowWriteRaise ==
    /\ pc = "rows"
    /\ pos < Len(input_file)
    /\ FilterTest(NextRecord, keep_rows, skip_rows) = "True"
    /\ \/ FilterCols(NextRecord, kept_cols).error # "none"
       \/ WriterowRaises(FilterCols(NextRecord, kept_cols).row, kept_cols)
    /\ rows_in' = Append(rows_in, NextRecord)
    /\ rows_out' = Append(rows_out, NextRecord)
    /\ pos' = pos + 1
    /\ cur_row' = FilterCols(NextRecord, kept_cols).row
    /\ error' = IF FilterCols(NextRecord, kept_cols).error # "none"
                THEN FilterCols(NextRecord, kept_cols).error
                ELSE "ValueError"
    /\ pc' = "failed"
    /\ UNCHANGED <<params, prolog_lines, csv_fields, kept_cols, ret,
                   output>>

\* the reader is exhausted: process_csv returns
RowsExhausted ==
    /\ pc = "rows"
    /\ pos = Len(input_file)
    /\ pc' = "done"
    /\ UNCHANGED <<params, error, pos, prolog_lines, csv_fields,
                   kept_cols, rows_in, rows_out, ret, output,
                   cur_row>>

Next ==
    \/ SplitProlog
    \/ ReadHeader
    \/ SelectCols
    \/ SelectColsRaise
    \/ WriteProlog
    \/ WriteHeader
    \/ RowDropped
    \/ RowFilterRaise
    \/ RowWritten
    \/ RowWriteRaise
    \/ RowsExhausted

Spec == Init /\ [][Next]_vars

\* ---------------------------------------------------------------- claim C5
\* the configuration names a column that is not in the header
NamesAbsentColumn ==
    \/ \E i \in 1..Len(keep_cols) : ~InList(keep_cols[i], csv_fields)
    \/ \E i \in 1..Len(skip_cols) : ~InList(skip_cols[i], csv_fields)
    \/ \E i \in 1..Len(keep_rows) : ~InList(keep_rows[i].col, csv_fields)
    \/ \E i \in 1..Len(skip_rows) : ~InList(skip_rows[i].col, csv_fields)

\* the header has been read
HeaderRead == pc \notin {"start", "read_header"}

\* C5: in every run that a configuration naming a column absent from the
\* header (in keep_cols, skip_cols or as a keep_rows / skip_rows key) makes
\* fail, nothing has been written to the output: no kept prolog line, no
\* header, no data row.
C5_BadColumnNoOutput ==
    (/\ HeaderRead
     /\ NamesAbsentColumn
     /\ pc = "failed"
     /\ error = "KeyError")
    => output = <<>>

\* --------------------------------------------------------------- claim C11
Min(a, b) == IF a <= b THEN a ELSE b

\* number of lines the prolog takes from the stream
PrologTaken == Min(Max(keep_prolog, skip_prolog), Len(input_file))

\* the records that follow the header line, as the reader parses them
InputRows ==
    [i \in 1..(Len(input_file) - PrologTaken - 1) |->
        ParseRow(csv_fields, input_file[PrologTaken + 1 + i])]

\* the row passes every keep_rows entry and no skip_rows entry
RowAdmitted(row) ==
    /\ \A i \in 1..Len(keep_rows) :
            /\ keep_rows[i].col \in DOMAIN row
            /\ row[keep_rows[i].col] \in Range(keep_rows[i].values)
    /\ \A i \in 1..Len(skip_rows) :
            /\ skip_rows[i].col \in DOMAIN row
            /\ row[skip_rows[i].col] \notin Range(skip_rows[i].values)

\* the fields of a row under the column selection, as they are written
ProjectedFields(row) ==
    [j \in 1..Len(kept_cols) |->
        IF row[kept_cols[j]] = RestVal THEN "" ELSE row[kept_cols[j]]]

\* the data part of the output
DataRows == SelectSeq(output, LAMBDA w : w.via = "writerow")

\* C11: in every successful run the data part of the output is the
\* subsequence of the input rows that the row filter admits: one output
\* row per admitted input row, in input order, nothing else.
C11_OutputIsAdmittedRows ==
    pc = "done"
    => /\ Len(DataRows) = Len(SelectSeq(InputRows, RowAdmitted))
       /\ \A i \in 1..Len(DataRows) :
            DataRows[i].fields =
                ProjectedFields(SelectSeq(InputRows, RowAdmitted)[i])

C11_Witness ==
    /\ pc = "done"
    /\ Len(InputRows) = 2
    /\ ~RowAdmitted(InputRows[1])
    /\ RowAdmitted(InputRows[2])
    /\ Len(DataRows) = 1
    /\ DataRows[1].fields = ProjectedFields(InputRows[2])

\* ------------------------------------------------------------ read_dialect
\* An Optional argument is the set of its values: {} is None, {v} is v.

\* Python truth of an Optional[str]
TruthyStr(opt) == \E v \in opt : v # ""

\* Python truth of an Optional[int]
TruthyInt(opt) == \E v \in opt : v # 0

\* the value of an Optional argument that is not None
ValueOf(opt) == CHOOSE v \in opt : TRUE

\* read_dialect(dialect, delimiter, quoting, quotechar, escapechar)
ReadDialect(dialect, delimiter, quoting, quotechar, escapechar) ==
    [dialect EXCEPT
        !.delimiter = IF TruthyStr(delimiter) THEN ValueOf(delimiter) ELSE @,
        !.quoting = IF TruthyInt(quoting) THEN ValueOf(quoting) ELSE @,
        !.quotechar = IF TruthyStr(quotechar) THEN ValueOf(quotechar) ELSE @,
        !.escapechar = IF TruthyStr(escapechar) THEN ValueOf(escapechar) ELSE @]

\* arguments read_dialect is called with
BaseDialects == {Excel, ExcelTab, UnixDialect}
ArgDelimiters == {{}, {","}, {"\t"}, {";"}}
ArgQuotings == {{}, {QUOTE_MINIMAL}, {QUOTE_ALL}, {QUOTE_NONE}}
ArgQuotechars == {{}, {"'"}, {"\""}}
ArgEscapechars == {{}, {"\\"}}

InitDialect ==
    /\ pc = "start"
    /\ error = "none"
    /\ input_file = <<>>
    /\ pos = 0
    /\ keep_prolog = 0
    /\ skip_prolog = 0
    /\ prolog_lines = <<>>
    /\ csv_fields = <<>>
    /\ keep_cols = <<>>
    /\ skip_cols = <<>>
    /\ kept_cols = <<>>
    /\ keep_rows = <<>>
    /\ skip_rows = <<>>
    /\ rows_in = <<>>
    /\ rows_out = <<>>
    /\ ret = NoCall
    /\ output = <<>>
    /\ cur_row = NoRow
    /\ args \in [dialect : BaseDialects, delimiter : ArgDelimiters,
                 quoting : ArgQuotings, quotechar : ArgQuotechars,
                 escapechar : ArgEscapechars]
    /\ output_dialect = args.dialect

\* output_dialect = read_dialect(args.dialect, args.delimiter, ...)
CallReadDialect ==
    /\ pc = "start"
    /\ output_dialect' = ReadDialect(args.dialect, args.delimiter,
                                     args.quoting, args.quotechar,
                                     args.escapechar)
    /\ pc' = "done"
    /\ UNCHANGED <<error, input_file, pos, keep_prolog, skip_prolog,
                   prolog_lines, csv_fields, keep_cols, skip_cols,
                   kept_cols, keep_rows, skip_rows, rows_in, rows_out, ret,
                   output, cur_row, args>>

NextDialect == CallReadDialect

SpecDialect == InitDialect /\ [][NextDialect]_vars

\* --------------------------------------------------------------- claim C12
\* the attribute is the given value when one was given, else the base's
Overwritten(given, new, base) ==
    IF given # {} THEN new \in given ELSE new = base

\* C12: read_dialect overwrites exactly the attributes among delimiter,
\* quoting, quotechar and escapechar that were given, whatever the value
\* given (also quoting QUOTE_MINIMAL = 0), and leaves the other
\* attributes, lineterminator and skipinitialspace at the base's value.
C12_OverridesExactlyGiven ==
    pc = "done"
    => /\ Overwritten(args.delimiter, output_dialect.delimiter,
                      args.dialect.delimiter)
       /\ Overwritten(args.quoting, output_dialect.quoting,
                      args.dialect.quoting)
       /\ Overwritten(args.quotechar, output_dialect.quotechar,
                      args.dialect.quotechar)
       /\ Overwritten(args.escapechar, output_dialect.escapechar,
                      args.dialect.escapechar)
       /\ output_dialect.lineterminator = args.dialect.lineterminator
       /\ output_dialect.skipinitialspace = args.dialect.skipinitialspace

\* --------------------------------------------------------------- claim C13
\* C13: the header and every data row are written with the output dialect
\* passed to process_csv: wherever one of them has several fields, these
\* are separated by the output dialect's delimiter.
C13_WrittenInOutputDialect ==
    \A i \in 1..Len(output) :
        (/\ output[i].via \in {"writeheader", "writerow"}
         /\ Len(output[i].fields) >= 2)
        => output[i].delim = output_dialect.delimiter

\* --------------------------------------------------------------- claim C14
\* the steps of process_csv in the order of the code
StepRank(p) ==
    CASE p = "start" -> 0
      [] p = "read_header" -> 1
      [] p = "read_cols" -> 2
      [] p = "write_prolog" -> 3
      [] p = "write_header" -> 4
      [] p = "rows" -> 5
      [] p = "done" -> 6
      [] p = "failed" -> 6

\* the prolog lines of the stream that are kept
KeptLines ==
    IF keep_prolog > 0 THEN SubSeq(input_file, 1, PrologTaken) ELSE <<>>

\* the kept prolog lines have been written verbatim and in order
PrologWritten ==
    /\ Len(output) >= Len(KeptLines)
    /\ \A i \in 1..Len(KeptLines) :
            output[i] = [via |-> "write", fields |-> KeptLines[i]]

\* the kept prolog lines, then the header once, then data rows only
HeaderWritten ==
    /\ PrologWritten
    /\ Len(output) > Len(KeptLines)
    /\ output[Len(KeptLines) + 1].via = "writeheader"
    /\ output[Len(KeptLines) + 1].fields = kept_cols
    /\ \A i \in (Len(KeptLines) + 2)..Len(output) : output[i].via = "writerow"

\* what has been written at each step
OutputInStepOrder ==
    /\ StepRank(pc) <= 3 => output = <<>>
    /\ pc = "write_header" => PrologWritten /\ Len(output) = Len(KeptLines)
    /\ pc \in {"rows", "done"} => HeaderWritten
    /\ pc = "failed" => output = <<>> \/ HeaderWritten

\* C14: in every run the steps happen in the order prolog split, header
\* read, column selection, kept-prolog write, header write, row streaming:
\* the kept prolog lines are written verbatim and in order before the
\* header, the header is written once and before any data row, and no step
\* is taken again once a later one has begun.
C14_StepsInOrder ==
    /\ []OutputInStepOrder
    /\ [][/\ StepRank(pc') >= StepRank(pc)
          /\ StepRank(pc') = StepRank(pc) => pc = "rows"]_vars

C14_Witness ==
    /\ pc = "done"
    /\ keep_prolog = 1
    /\ Len(output) = 3
    /\ output[1] = [via |-> "write", fields |-> input_file[1]]
    /\ output[2].via = "writeheader"
    /\ output[3].via = "writerow"

\* --------------------------------------------------------------- claim C15
\* C15: for every admitted row and every column selection read_cols
\* computes, the empty one included, the row handed to the writer has
\* exactly the selected columns as keys, each with the input row's value;
\* a selected column absent from the row makes the projection raise
\* KeyError.
C15_WriterGetsSelectedColumns ==
    rows_out # <<>>
    => IF \E i \in 1..Len(kept_cols) :
              kept_cols[i] \notin DOMAIN rows_out[Len(rows_out)]
       THEN pc = "failed" /\ error = "KeyError"
       ELSE /\ DOMAIN cur_row = Range(kept_cols)
            /\ \A c \in Range(kept_cols) :
                    cur_row[c] = rows_out[Len(rows_out)][c]

\* --------------------------------------------------------------- claim C16
\* every row filter names a header column, and one of them names a column
\* that the column selection drops
FilterOnDroppedColumn ==
    /\ \A i \in 1..Len(keep_rows) : InList(keep_rows[i].col, csv_fields)
    /\ \A i \in 1..Len(skip_rows) : InList(skip_rows[i].col, csv_fields)
    /\ \/ \E i \in 1..Len(keep_rows) : ~InList(keep_rows[i].col, kept_cols)
       \/ \E i \in 1..Len(skip_rows) : ~InList(skip_rows[i].col, kept_cols)

\* the input rows read so far that the row filter admits
AdmittedSoFar ==
    SelectSeq(SubSeq(InputRows, 1, Len(rows_in)), RowAdmitted)

\* C16: the row filter is evaluated on the full input row, before the
\* column projection: with a keep_rows or skip_rows filter on a header
\* column that the column selection drops, the rows written so far are the
\* rows whose input values pass the filter, projected, and the run never
\* fails with a missing-column error.
C16_FilterBeforeProjection ==
    (/\ pc \in {"rows", "done", "failed"}
     /\ HeaderWritten
     /\ FilterOnDroppedColumn)
    => /\ ~(pc = "failed" /\ error = "KeyError")
       /\ pc # "failed"
            => /\ Len(DataRows) = Len(AdmittedSoFar)
               /\ \A i \in 1..Len(DataRows) :
                    DataRows[i].fields = ProjectedFields(AdmittedSoFar[i])

C16_Witness ==
    /\ pc = "done"
    /\ kept_cols = <<"a">>
    /\ skip_rows = <<[col |-> "b", values |-> <<"1">>]>>
    /\ csv_fields = <<"a", "b">>
    /\ Len(rows_in) = 2
    /\ Len(DataRows) = 1
    /\ DataRows[1].fields = <<"1">>

\* --------------------------------------------------------------- claim C17
\* the record has no value for a filter column or a selected column: it
\* has fewer fields than the header
LacksExpectedField(row) ==
    \E c \in DOMAIN row :
        /\ row[c] = RestVal
        /\ \/ InList(c, kept_cols)
           \/ \E i \in 1..Len(keep_rows) : keep_rows[i].col = c
           \/ \E i \in 1..Len(skip_rows) : skip_rows[i].col = c

\* C17: during row streaming a record with fewer fields than the header,
\* lacking a value for a filter column or a selected column, aborts the
\* run at once with a missing-field error: it is the last record read and
\* the run has failed with KeyError.
C17_ShortRecordAborts ==
    \A i \in 1..Len(rows_in) :
        (HeaderWritten /\ LacksExpectedField(rows_in[i]))
        => /\ i = Len(rows_in)
           /\ pc = "failed"
           /\ error = "KeyError"

\* ------------------------------------------------------- read_row_filters
\* d[col] = values on a dict: a present key keeps its place and takes the
\* new value, a new key goes last
DictSet(d, col, values) ==
    IF \E i \in 1..Len(d) : d[i].col = col
    THEN [i \in 1..Len(d) |->
            IF d[i].col = col THEN [col |-> col, values |-> values]
            ELSE d[i]]
    ELSE Append(d, [col |-> col, values |-> values])

\* d[col] += values, a new key going last
DictExtend(d, col, values) ==
    IF \E i \in 1..Len(d) : d[i].col = col
    THEN [i \in 1..Len(d) |->
            IF d[i].col = col
            THEN [col |-> col, values |-> d[i].values \o values]
            ELSE d[i]]
    ELSE Append(d, [col |-> col, values |-> values])

RECURSIVE ReadRowFilters_Merged(_)
\* mutant: the value lists of groups naming the same column are merged
ReadRowFilters_Merged(row_args) ==
    IF row_args = <<>> THEN <<>>
    ELSE DictExtend(
            ReadRowFilters_Merged(SubSeq(row_args, 1, Len(row_args) - 1)),
            Head(row_args[Len(row_args)]), Tail(row_args[Len(row_args)]))

RECURSIVE ReadRowFilters(_)
\* read_row_filters(row_args): {r[0]: r[1:] for r in row_args}
ReadRowFilters(row_args) ==
    IF row_args = <<>> THEN <<>>
    ELSE DictSet(ReadRowFilters(SubSeq(row_args, 1, Len(row_args) - 1)),
                 Head(row_args[Len(row_args)]), Tail(row_args[Len(row_args)]))

\* number of times --keep-rows or --skip-rows is given
MaxGroups == 2

\* one argument group of --keep-rows / --skip-rows (nargs="+"): a column
\* name followed by its values
ArgGroups == {<<c>> \o v : c \in RowCols, v \in ValueLists}

\* what action="append" collects, [] by default
ArgGroupLists == SeqsUpTo(ArgGroups, MaxGroups)

InitRowFilters ==
    /\ pc = "args"
    /\ error = "none"
    /\ input_file = <<>>
    /\ pos = 0
    /\ keep_prolog = 0
    /\ skip_prolog = 0
    /\ prolog_lines = <<>>
    /\ csv_fields = <<>>
    /\ keep_cols = <<>>
    /\ skip_cols = <<>>
    /\ kept_cols = <<>>
    /\ keep_rows = <<>>
    /\ skip_rows = <<>>
    /\ rows_in = <<>>
    /\ rows_out = <<>>
    /\ ret = NoCall
    /\ output = <<>>
    /\ cur_row = NoRow
    /\ args \in [keep_rows : ArgGroupLists, skip_rows : ArgGroupLists]
    /\ output_dialect = Excel

\* main: keep_rows = read_row_filters(args.keep_rows) and
\* skip_rows = read_row_filters(args.skip_rows)
MainReadRowFilters ==
    /\ pc = "args"
    /\ keep_rows' = ReadRowFilters(args.keep_rows)
    /\ skip_rows' = ReadRowFilters(args.skip_rows)
    /\ pc' = "start"
    /\ UNCHANGED <<input_file, keep_prolog, skip_prolog, keep_cols,
                   skip_cols, args, output_dialect, error, pos,
                   prolog_lines, csv_fields, kept_cols, rows_in, rows_out,
                   ret, output, cur_row>>

\* the filters are read, then applied to a row by keep_row or skip_row
NextRowFilters ==
    \/ MainReadRowFilters
    \/ CallKeepRow
    \/ CallSkipRow

SpecRowFilters == InitRowFilters /\ [][NextRowFilters]_vars

\* --------------------------------------------------------------- claim C18
\* the filter dict holds one value list per column named in the groups:
\* the values of the last group that names the column
LastGroupWins(row_args, filters) ==
    /\ \A i, j \in 1..Len(filters) : i # j => filters[i].col # filters[j].col
    /\ {filters[i].col : i \in 1..Len(filters)} =
            {row_args[i][1] : i \in 1..Len(row_args)}
    /\ \A i \in 1..Len(filters) :
        \E g \in 1..Len(row_args) :
            /\ row_args[g][1] = filters[i].col
            /\ \A h \in (g + 1)..Len(row_args) :
                    row_args[h][1] # filters[i].col
            /\ filters[i].values = Tail(row_args[g])

\* C18: read_row_filters keeps one value list per column; when several
\* argument groups of --keep-rows / --skip-rows name the same column, the
\* filter of that column is the value list of the last group only, neither
\* the first nor a merge; a group with no values gives an empty list, with
\* which keep_row admits no row and skip_row rejects no row.
C18_LastGroupWins ==
    pc # "args"
    => /\ LastGroupWins(args.keep_rows, keep_rows)
       /\ LastGroupWins(args.skip_rows, skip_rows)
       /\ (/\ ret.fn = "keep_row"
           /\ \E i \in 1..Len(keep_rows) : keep_rows[i].values = <<>>)
          => ret.val # "True"
       /\ (/\ ret.fn = "skip_row"
           /\ ret.val = "False")
          => \E i \in 1..Len(skip_rows) :
                /\ skip_rows[i].values # <<>>
                /\ skip_rows[i].col \in DOMAIN rows_in[1]
                /\ InList(rows_in[1][skip_rows[i].col], skip_rows[i].values)

C18_Witness ==
    /\ pc = "done"
    /\ args.keep_rows = << <<"a", "1">>, <<"a">> >>
    /\ keep_rows = <<[col |-> "a", values |-> <<>>]>>
    /\ rows_in = <<[c \in {"a"} |-> "1"]>>
    /\ ret = [fn |-> "keep_row", val |-> "False"]

====
